---------------------------- MODULE Spec2Model ----------------------------
(***************************************************************************)
(* A model of code_lens_llm.py: the signature renderer                     *)
(* (get_function_signature), the module extractor with its empty-item      *)
(* pruning (extract_signatures_with_ast), the per-file aggregation         *)
(* (extract_signatures_with_ast_method) and the control flow of main.      *)
(*                                                                         *)
(* Python values are modelled as follows.                                  *)
(*   dict          a function whose domain is the set of its keys          *)
(*                 (EmptyDict is {}); key order plays no part in           *)
(*                 dict equality and is not modelled                       *)
(*   str           a TLA+ string, f-strings and + are \o                   *)
(*   None          the record NoneNode (for optional AST children)         *)
(*   AST node      a record with the node's fields                         *)
(*   Optional[str] returned by ast.get_docstring: <<>> for None, <<s>>     *)
(*                 for the string s                                        *)
(***************************************************************************)
EXTENDS Integers, Sequences, FiniteSets, TLC

VARIABLES
    pc,                  \* position of the program / of the call under study
    REPORT_EMPTY_ITEMS,  \* module-level switch (line 11)
    OMIT_DOCSTRINGS,     \* module-level switch (line 10)
    has_unparse,         \* hasattr(ast, 'unparse') of the running interpreter
    item,                \* a callable declaration handed to the renderer
    args,                \* the list args of get_function_signature before the join
    func_info,           \* the {'signature': .., 'docstring': ..} built for item
    file,                \* one source file handed to extract_signatures_with_ast
    include_docstrings,  \* the parameter of extract_signatures_with_ast
    module_info,         \* what extract_signatures_with_ast returned / a re-pruned copy
    isdir,               \* os.path.isdir(codebase_path)
    disk_files,          \* the .py files os.walk finds under codebase_path
    write_ok,            \* whether open()/json.dump of the output succeeds
    python_files,        \* main's python_files
    idx,                 \* number of files the loop of line 189 has handled
    signatures,          \* what the last call at line 190 returned
    result,              \* the report being built (line 188)
    exit_code,           \* -1 while running, then the process's exit status
    discover_calls,      \* calls of get_python_files so far
    extract_calls,       \* per file index, calls of extract_signatures_with_ast
    write_calls,         \* attempts to write the output so far
    output               \* <<>>, or <<d>> once document d is in the output file

configVars == <<REPORT_EMPTY_ITEMS, OMIT_DOCSTRINGS, has_unparse>>
renderVars == <<item, args, func_info>>
extractVars == <<file, include_docstrings, module_info>>
mainVars == <<isdir, disk_files, write_ok, python_files, idx, signatures, result,
              exit_code, discover_calls, extract_calls, write_calls, output>>
vars == <<pc, configVars, renderVars, extractVars, mainVars>>

---------------------------------------------------------------------------
(* Bounds of the model *)

MaxArgs == 3      \* positional parameters of a modelled callable
MaxItems == 2     \* top-level statements of a modelled module
MaxFiles == 3     \* .py files under the scanned root

---------------------------------------------------------------------------
(* Python dicts *)

EmptyDict == [k \in {} |-> k]

Put(d, k, v) == [x \in DOMAIN d \cup {k} |-> IF x = k THEN v ELSE d[x]]

Del(d, k) == [x \in DOMAIN d \ {k} |-> d[x]]

\* ', '.join(parts)
RECURSIVE JoinComma(_)
JoinComma(parts) ==
    IF Len(parts) = 0 THEN ""
    ELSE IF Len(parts) = 1 THEN parts[1]
    ELSE parts[1] \o ", " \o JoinComma(Tail(parts))

---------------------------------------------------------------------------
(* AST nodes *)

NoneNode == [kind |-> "None", text |-> "", raises |-> FALSE]

\* An expression node; raises tells whether ast.unparse raises on it.
Expr(t, r) == [kind |-> "expr", text |-> t, raises |-> r]

\* ast.arg
Arg(n, ann) == [arg |-> n, annotation |-> ann]

NoArg == [arg |-> "", annotation |-> NoneNode]

\* ast.arguments
Arguments(po, a, d, va, ko, kw) ==
    [posonlyargs |-> po, args |-> a, defaults |-> d, vararg |-> va,
     kwonlyargs |-> ko, kwarg |-> kw]

NoArguments == Arguments(<<>>, <<>>, <<>>, NoArg, <<>>, NoArg)

\* A statement node. doc is what ast.get_docstring answers for it.
Stmt(k, n, a, r, doc, b) ==
    [kind |-> k, name |-> n, args |-> a, returns |-> r, doc |-> doc, body |-> b]

IsFunctionDef(n) == n.kind = "FunctionDef"
IsAsyncFunctionDef(n) == n.kind = "AsyncFunctionDef"
IsClassDef(n) == n.kind = "ClassDef"

---------------------------------------------------------------------------
(* get_function_signature, lines 129-181 *)

\* ast.unparse(e) if hasattr(ast, 'unparse') else '...', '...' on any exception
Unparse(e) == IF has_unparse /\ ~e.raises THEN e.text ELSE "..."

\* A wrong alignment: default i bound to parameter i.
DefaultsLeftAligned(func_node) ==
    LET D == Len(func_node.args.defaults)
    IN  [k \in {i : i \in 0 .. D - 1} |-> func_node.args.defaults[k + 1]]

\* lines 134-135: the dict defaults, keyed by 0-based parameter index
Defaults(func_node) ==
    LET P == Len(func_node.args.args)
        D == Len(func_node.args.defaults)
    IN  [k \in {P - D + i : i \in 0 .. D - 1} |->
            func_node.args.defaults[k - (P - D) + 1]]

\* A wrong order of the suffixes: annotation before default.
ArgStrAnnotationFirst(func_node, i) ==
    LET arg == func_node.args.args[i + 1]
        s0 == arg.arg
        s1 == IF arg.annotation # NoneNode
              THEN s0 \o ": " \o Unparse(arg.annotation) ELSE s0
    IN  IF i \in DOMAIN Defaults(func_node)
        THEN s1 \o "=" \o Unparse(Defaults(func_node)[i]) ELSE s1

\* lines 137-151: arg_str of the parameter at 0-based index i
ArgStr(func_node, i) ==
    LET arg == func_node.args.args[i + 1]
        s0 == arg.arg
        s1 == IF i \in DOMAIN Defaults(func_node)
              THEN s0 \o "=" \o Unparse(Defaults(func_node)[i]) ELSE s0
    IN  IF arg.annotation # NoneNode
        THEN s1 \o ": " \o Unparse(arg.annotation) ELSE s1

\* lines 154-171: '*vararg' or '**kwarg' with its annotation
StarArg(stars, a) ==
    IF a.annotation # NoneNode
    THEN stars \o a.arg \o ": " \o Unparse(a.annotation)
    ELSE stars \o a.arg

\* lines 133-171: the list args
ArgList(func_node) ==
    LET positional == [i \in 1 .. Len(func_node.args.args) |-> ArgStr(func_node, i - 1)]
        withVar == IF func_node.args.vararg # NoArg
                   THEN Append(positional, StarArg("*", func_node.args.vararg))
                   ELSE positional
    IN  IF func_node.args.kwarg # NoArg
        THEN Append(withVar, StarArg("**", func_node.args.kwarg))
        ELSE withVar

get_function_signature(func_node, is_async) ==
    LET s0 == "(" \o JoinComma(ArgList(func_node)) \o ")"
        s1 == IF func_node.returns # NoneNode
              THEN s0 \o " -> " \o Unparse(func_node.returns) ELSE s0
    IN  IF is_async THEN "async " \o s1 ELSE s1

---------------------------------------------------------------------------
(* extract_signatures_with_ast, lines 35-127 *)

\* docstring if docstring else ""
DocOrEmpty(doc) == IF doc = <<>> THEN "" ELSE doc[1]

\* lines 54-58 (FunctionDef) and 61-65 (AsyncFunctionDef), the same for
\* methods at lines 72-76 and 79-83
CallableInfo(node, incl) ==
    LET signature == IF IsAsyncFunctionDef(node)
                     THEN get_function_signature(node, TRUE)
                     ELSE get_function_signature(node, FALSE)
    IN  IF incl
        THEN [signature |-> signature, docstring |-> DocOrEmpty(node.doc)]
        ELSE [signature |-> signature]


\* ast.walk instead of the direct children: every statement below body.
RECURSIVE Descendants(_)
Descendants(body) ==
    IF Len(body) = 0 THEN <<>>
    ELSE <<Head(body)>> \o Descendants(Head(body).body) \o Descendants(Tail(body))

\* `for item in node.body` (line 52) and `for class_item in item.body`
\* (line 70): the statements the loops visit
Children(body) == body

\* lines 68-84: class_info after the first k statements of the class body
RECURSIVE ClassInfoAfter(_, _, _)
ClassInfoAfter(stmts, incl, k) ==
    IF k = 0 THEN EmptyDict
    ELSE LET class_info == ClassInfoAfter(stmts, incl, k - 1)
             class_item == stmts[k]
         IN  IF IsFunctionDef(class_item) \/ IsAsyncFunctionDef(class_item)
             THEN Put(class_info, class_item.name, CallableInfo(class_item, incl))
             ELSE class_info

\* lines 68-88: class_entry of a ClassDef
ClassEntry(node, incl) ==
    LET stmts == Children(node.body)
        class_info == ClassInfoAfter(stmts, incl, Len(stmts))
    IN  IF incl
        THEN [methods |-> class_info, docstring |-> DocOrEmpty(node.doc)]
        ELSE [methods |-> class_info]

\* lines 50-88: module_info after the first k statements of the module
RECURSIVE ModuleInfoAfter(_, _, _)
ModuleInfoAfter(stmts, incl, k) ==
    IF k = 0 THEN [functions |-> EmptyDict, classes |-> EmptyDict]
    ELSE LET m == ModuleInfoAfter(stmts, incl, k - 1)
             it == stmts[k]
         IN  IF IsFunctionDef(it) \/ IsAsyncFunctionDef(it)
             THEN [m EXCEPT !.functions = Put(@, it.name, CallableInfo(it, incl))]
             ELSE IF IsClassDef(it)
             THEN [m EXCEPT !.classes = Put(@, it.name, ClassEntry(it, incl))]
             ELSE m

\* lines 50-88: module_info as the traversal leaves it
BuildModuleInfo(body, incl) ==
    ModuleInfoAfter(Children(body), incl, Len(Children(body)))

\* lines 99-100, 108-109, 113-114: drop 'docstring' when it is empty
StripEmptyDocstring(info) ==
    IF "docstring" \in DOMAIN info /\ info.docstring = ""
    THEN Del(info, "docstring") ELSE info

\* A pruning that also drops the callables whose docstring was empty.
PruneCallablesDropUndocumented(d) ==
    LET keep == {n \in DOMAIN d : "docstring" \in DOMAIN d[n] /\ d[n].docstring # ""}
    IN  [n \in keep |-> d[n]]

\* lines 98-103 and 112-117: the loop over a dict of callables
PruneCallables(d) ==
    LET cleaned == [n \in DOMAIN d |-> StripEmptyDocstring(d[n])]
        keep == {n \in DOMAIN d : DOMAIN cleaned[n] # {}}
    IN  [n \in keep |-> cleaned[n]]

\* lines 107-121: one class_details after its cleaning
PruneClassDetails(class_details) ==
    LET c1 == StripEmptyDocstring(class_details)
        c2 == IF "methods" \in DOMAIN c1
              THEN [c1 EXCEPT !.methods = PruneCallables(@)] ELSE c1
    IN  IF "methods" \in DOMAIN c2 /\ DOMAIN c2.methods = {}
        THEN Del(c2, "methods") ELSE c2

\* lines 106-125: the loop over the classes
PruneClasses(d) ==
    LET cleaned == [n \in DOMAIN d |-> PruneClassDetails(d[n])]
        keep == {n \in DOMAIN d : DOMAIN cleaned[n] # {}}
    IN  [n \in keep |-> cleaned[n]]

\* lines 90-125, the pruning pass. Lines 92 and 94 subscript module_info, which
\* raises KeyError on a dict that has lost the key; so that the pass can be
\* applied to its own result, a missing key is read here as "nothing to delete".
PruneEmptyItems(m) ==
    LET m1 == IF "functions" \in DOMAIN m /\ DOMAIN m.functions = {}
              THEN Del(m, "functions") ELSE m
        m2 == IF "classes" \in DOMAIN m1 /\ DOMAIN m1.classes = {}
              THEN Del(m1, "classes") ELSE m1
        m3 == IF "functions" \in DOMAIN m2
              THEN [m2 EXCEPT !.functions = PruneCallables(@)] ELSE m2
    IN  IF "classes" \in DOMAIN m3
        THEN [m3 EXCEPT !.classes = PruneClasses(@)] ELSE m3

\* An extraction whose except clauses fall through to the traversal.
extract_signatures_fallthrough(f, incl) ==
    LET module_info0 == BuildModuleInfo(f.body, incl)
    IN  IF REPORT_EMPTY_ITEMS /\ f.status = "ok"
        THEN PruneEmptyItems(module_info0) ELSE module_info0

\* lines 35-127; f.status is the outcome of open/read/ast.parse (lines 40-48)
extract_signatures_with_ast(f, incl) ==
    IF f.status # "ok" THEN EmptyDict
    ELSE LET module_info0 == BuildModuleInfo(f.body, incl)
         IN  IF REPORT_EMPTY_ITEMS THEN PruneEmptyItems(module_info0)
             ELSE module_info0

---------------------------------------------------------------------------
(* extract_signatures_with_ast_method and main, lines 183-242 *)

\* A file met by os.walk below codebase_path: its directory (relative to the
\* root, as path components), its name as stem and extension, and what
\* reading and parsing it gives (status, and body when status is "ok").
WalkedFile(dir, stem, ext, status, body) ==
    [dir |-> dir, stem |-> stem, ext |-> ext, status |-> status, body |-> body]

codebase_path == <<"root">>

\* os.path.join(root, file), as path components (line 30)
FullPath(f) == codebase_path \o f.dir \o <<f.stem \o f.ext>>

\* os.path.relpath(file_path, codebase_path) for a path below codebase_path
RelPath(file_path, start) == SubSeq(file_path, Len(start) + 1, Len(file_path))

\* lines 26-33: the walked files whose name ends with '.py', as
\* full paths with what the path holds
get_python_files(walked) ==
    LET py == SelectSeq(walked, LAMBDA f : f.ext = ".py")
    IN  [i \in 1 .. Len(py) |->
            [file_path |-> FullPath(py[i]), status |-> py[i].status, body |-> py[i].body]]

\* A report that keeps every file.
ShouldReportAlways(sigs) == TRUE

\* line 191: signatures or not REPORT_EMPTY_ITEMS
ShouldReport(sigs) == DOMAIN sigs # {} \/ ~REPORT_EMPTY_ITEMS

---------------------------------------------------------------------------
(* Inputs: the declarations, modules and directory trees the runs draw from *)

ArgNames == <<"a", "b", "c", "d", "e">>

AnnotationChoices == {NoneNode, Expr("int", FALSE)}

\* The literal 2, and an expression on which ast.unparse raises.
DefaultChoices == {Expr("2", FALSE), Expr("deep(...)", TRUE)}

PosOnlyChoices == {<<>>, <<Arg("p", NoneNode)>>}

KwOnlyChoices == {<<>>, <<Arg("k", NoneNode)>>}

VarargChoices == {NoArg, Arg("args", NoneNode), Arg("args", Expr("int", FALSE))}

KwargChoices == {NoArg, Arg("kwargs", NoneNode), Arg("kwargs", Expr("str", FALSE))}

ReturnChoices == {NoneNode, Expr("int", FALSE)}

PositionalArgs(P) ==
    {[i \in 1 .. P |-> Arg(ArgNames[i], ann[i])] : ann \in [1 .. P -> AnnotationChoices]}

\* Python allows at most as many defaults as positional-only plus positional
\* parameters.
DefaultSeqs(n) == UNION {[1 .. D -> DefaultChoices] : D \in 0 .. n}

\* The declarations of callables with P positional parameters.
IsRenderCallable(node, P) ==
    \E a \in PositionalArgs(P), po \in PosOnlyChoices :
        \E k \in {"FunctionDef", "AsyncFunctionDef"},
           d \in DefaultSeqs(Len(po) + Len(a)),
           va \in VarargChoices, ko \in KwOnlyChoices, kw \in KwargChoices,
           r \in ReturnChoices :
            node = Stmt(k, "f", Arguments(po, a, d, va, ko, kw), r, <<>>, <<>>)

NoStmt == Stmt("None", "", NoArguments, NoneNode, <<>>, <<>>)

PassStmt == Stmt("Pass", "", NoArguments, NoneNode, <<>>, <<>>)

SimpleArgs ==
    Arguments(<<>>, <<Arg("a", NoneNode)>>, <<Expr("2", FALSE)>>, NoArg, <<>>, NoArg)

Fn(k, n, doc, b) == Stmt(k, n, SimpleArgs, NoneNode, doc, b)

\* Declarations that occur only nested: inside a function, a method, a
\* nested class or a compound statement.
InnerDef == Fn("FunctionDef", "inner", <<"x">>, <<PassStmt>>)

InnerClass ==
    Stmt("ClassDef", "Inner", NoArguments, NoneNode, <<"x">>,
         <<Fn("FunctionDef", "deep", <<"x">>, <<PassStmt>>)>>)

NestedNames == {"inner", "Inner", "deep"}

TopFunctions ==
    {Fn("FunctionDef", "f", doc, b) :
        doc \in {<<>>, <<"x">>}, b \in {<<PassStmt>>, <<InnerDef>>}}
    \cup {Fn("AsyncFunctionDef", "g", <<"">>, <<PassStmt>>),
          Fn("FunctionDef", "g", <<"x">>, <<InnerClass>>)}

ClassBodies ==
    {<<PassStmt>>,
     <<Fn("FunctionDef", "m", <<>>, <<PassStmt>>)>>,
     <<Fn("FunctionDef", "m", <<"x">>, <<InnerDef>>),
       Fn("AsyncFunctionDef", "n", <<>>, <<PassStmt>>)>>,
     <<Fn("FunctionDef", "m", <<"x">>, <<PassStmt>>),
       Fn("FunctionDef", "m", <<>>, <<PassStmt>>)>>,
     <<InnerClass>>}

TopClasses ==
    {Stmt("ClassDef", "A", NoArguments, NoneNode, doc, b) :
        doc \in {<<>>, <<"x">>}, b \in ClassBodies}
    \cup {Stmt("ClassDef", "B", NoArguments, NoneNode, <<>>, b) :
        b \in {<<PassStmt>>, <<Fn("FunctionDef", "m", <<>>, <<PassStmt>>)>>}}

\* Top-level statements that are neither a function nor a class.
OtherStmts ==
    {Stmt("Assign", "", NoArguments, NoneNode, <<>>, <<>>),
     Stmt("If", "", NoArguments, NoneNode, <<>>, <<InnerDef, InnerClass>>)}

TopStmts == TopFunctions \cup TopClasses \cup OtherStmts

SourceFile(status, body) ==
    [file_path |-> <<"root", "m.py">>, status |-> status, body |-> body]

\* A file that parses to a module of at most MaxItems top-level statements,
\* or one that cannot be parsed or read.
IsSourceFile(f) ==
    \/ \E n \in 0 .. MaxItems : \E b \in [1 .. n -> TopStmts] : f = SourceFile("ok", b)
    \/ f \in {SourceFile("SyntaxError", <<>>), SourceFile("OSError", <<>>)}

NoFile == SourceFile("None", <<>>)

\* Where the files of a walked tree lie, by position in the walk.
Slots ==
    <<[dir |-> <<>>, stem |-> "a"],
      [dir |-> <<"pkg">>, stem |-> "b"],
      [dir |-> <<"pkg">>, stem |-> "c"],
      [dir |-> <<"pkg", "sub">>, stem |-> "d"]>>

EmptyClassA == Stmt("ClassDef", "A", NoArguments, NoneNode, <<>>, <<PassStmt>>)

\* What a walked file can be: its extension and what reading and parsing it gives.
FileKinds ==
    {[ext |-> ".txt", status |-> "ok", body |-> <<>>],
     [ext |-> ".py", status |-> "SyntaxError", body |-> <<>>],
     [ext |-> ".py", status |-> "OSError", body |-> <<>>],
     [ext |-> ".py", status |-> "ok", body |-> <<>>],
     [ext |-> ".py", status |-> "ok",
      body |-> <<Stmt("Assign", "", NoArguments, NoneNode, <<>>, <<>>),
                 Stmt("If", "", NoArguments, NoneNode, <<>>, <<InnerDef>>)>>],
     [ext |-> ".py", status |-> "ok",
      body |-> <<Stmt("Assign", "", NoArguments, NoneNode, <<>>, <<>>),
                 Fn("FunctionDef", "f", <<"x">>, <<PassStmt>>)>>],
     [ext |-> ".py", status |-> "ok", body |-> <<EmptyClassA>>],
     [ext |-> ".py", status |-> "ok",
      body |-> <<Fn("AsyncFunctionDef", "g", <<>>, <<PassStmt>>),
                 Stmt("ClassDef", "A", NoArguments, NoneNode, <<"x">>,
                      <<Fn("FunctionDef", "m", <<>>, <<PassStmt>>)>>)>>]}

DiskTrees ==
    UNION {{[i \in 1 .. n |->
                WalkedFile(Slots[i].dir, Slots[i].stem, k[i].ext, k[i].status, k[i].body)]
            : k \in [1 .. n -> FileKinds]}
           : n \in 0 .. MaxFiles}

---------------------------------------------------------------------------
(* Initial values of the parts a run does not use *)

RenderIdle == item = NoStmt /\ args = <<>> /\ func_info = EmptyDict

ExtractIdle == file = NoFile /\ module_info = EmptyDict

MainIdle ==
    /\ isdir = FALSE /\ disk_files = <<>> /\ write_ok = FALSE
    /\ python_files = <<>> /\ idx = 0 /\ signatures = EmptyDict /\ result = EmptyDict
    /\ exit_code = -1 /\ discover_calls = 0 /\ extract_calls = <<>>
    /\ write_calls = 0 /\ output = <<>>

---------------------------------------------------------------------------
(* The renderer applied to one callable, as the extractor calls it *)

RenderInit ==
    /\ pc = "ready"
    /\ REPORT_EMPTY_ITEMS = TRUE /\ OMIT_DOCSTRINGS = FALSE
    /\ has_unparse \in BOOLEAN
    /\ \E P \in 0 .. MaxArgs : IsRenderCallable(item, P)
    /\ args = <<>> /\ func_info = EmptyDict
    /\ include_docstrings = FALSE
    /\ ExtractIdle /\ MainIdle

\* lines 53-55 / 60-62 with the call of get_function_signature
RenderCallable ==
    /\ pc = "ready"
    /\ args' = ArgList(item)
    /\ func_info' = CallableInfo(item, include_docstrings)
    /\ pc' = "rendered"
    /\ UNCHANGED <<configVars, item, extractVars, mainVars>>

RenderNext == RenderCallable

SpecRender == RenderInit /\ [][RenderNext]_vars

---------------------------------------------------------------------------
(* extract_signatures_with_ast applied to one file, then the pruning pass *)
(* applied once more to what it returned                                  *)

ExtractInit ==
    /\ pc = "ready"
    /\ REPORT_EMPTY_ITEMS \in BOOLEAN /\ OMIT_DOCSTRINGS = FALSE
    /\ has_unparse = TRUE
    /\ IsSourceFile(file)
    /\ include_docstrings \in BOOLEAN
    /\ module_info = EmptyDict
    /\ RenderIdle /\ MainIdle

ExtractCall ==
    /\ pc = "ready"
    /\ module_info' = extract_signatures_with_ast(file, include_docstrings)
    /\ pc' = "returned"
    /\ UNCHANGED <<configVars, renderVars, file, include_docstrings, mainVars>>

PruneAgain ==
    /\ pc = "returned"
    /\ REPORT_EMPTY_ITEMS
    /\ module_info' = PruneEmptyItems(module_info)
    /\ pc' = "pruned_again"
    /\ UNCHANGED <<configVars, renderVars, file, include_docstrings, mainVars>>

ExtractNext == ExtractCall \/ PruneAgain

SpecExtract == ExtractInit /\ [][ExtractNext]_vars

---------------------------------------------------------------------------
(* main, lines 196-242 *)

Init ==
    /\ pc = "start"
    /\ REPORT_EMPTY_ITEMS \in BOOLEAN /\ OMIT_DOCSTRINGS \in BOOLEAN
    /\ has_unparse = TRUE
    /\ isdir \in BOOLEAN
    /\ disk_files \in (IF isdir THEN DiskTrees ELSE {<<>>})
    /\ write_ok \in BOOLEAN
    /\ python_files = <<>> /\ idx = 0 /\ signatures = EmptyDict /\ result = EmptyDict
    /\ exit_code = -1 /\ discover_calls = 0 /\ extract_calls = <<>>
    /\ write_calls = 0 /\ output = <<>>
    /\ include_docstrings = FALSE
    /\ RenderIdle /\ ExtractIdle

\* A validation that reports the bad root and goes on.
ValidateRootNoExit ==
    /\ pc = "start"
    /\ pc' = "discover"
    /\ UNCHANGED <<configVars, renderVars, extractVars, isdir, disk_files, write_ok,
                   python_files, idx, signatures, result, exit_code, discover_calls,
                   extract_calls, write_calls, output>>

\* lines 217-219
ValidateRoot ==
    /\ pc = "start"
    /\ IF ~isdir
       THEN pc' = "exited" /\ exit_code' = 1
       ELSE pc' = "discover" /\ UNCHANGED exit_code
    /\ UNCHANGED <<configVars, renderVars, extractVars, isdir, disk_files, write_ok,
                   python_files, idx, signatures, result, discover_calls,
                   extract_calls, write_calls, output>>

\* lines 221-224, and line 188 when the run goes on
Discover ==
    /\ pc = "discover"
    /\ python_files' = get_python_files(disk_files)
    /\ discover_calls' = discover_calls + 1
    /\ extract_calls' = [i \in 1 .. Len(python_files') |-> 0]
    /\ IF Len(python_files') = 0
       THEN pc' = "exited" /\ exit_code' = 1
       ELSE pc' = "extract" /\ UNCHANGED exit_code
    /\ UNCHANGED <<configVars, renderVars, extractVars, isdir, disk_files, write_ok,
                   idx, signatures, result, write_calls, output>>

\* lines 189-193: one turn of the loop of extract_signatures_with_ast_method,
\* called with include_docstrings = not OMIT_DOCSTRINGS (line 230)
ExtractFile ==
    /\ pc = "extract"
    /\ idx < Len(python_files)
    /\ signatures' = extract_signatures_with_ast(python_files[idx + 1], ~OMIT_DOCSTRINGS)
    /\ result' = IF ShouldReport(signatures')
                 THEN Put(result,
                          RelPath(python_files[idx + 1].file_path, codebase_path),
                          signatures')
                 ELSE result
    /\ extract_calls' = [extract_calls EXCEPT ![idx + 1] = @ + 1]
    /\ idx' = idx + 1
    /\ UNCHANGED <<pc, configVars, renderVars, extractVars, isdir, disk_files, write_ok,
                   python_files, exit_code, discover_calls, write_calls, output>>

\* A write whose failure is logged without sys.exit(1).
WriteOutputIgnoringFailure ==
    /\ pc = "extract"
    /\ idx = Len(python_files)
    /\ write_calls' = write_calls + 1
    /\ output' = IF write_ok THEN <<result>> ELSE output
    /\ exit_code' = 0
    /\ pc' = "exited"
    /\ UNCHANGED <<configVars, renderVars, extractVars, isdir, disk_files, write_ok,
                   python_files, idx, signatures, result, discover_calls, extract_calls>>

\* lines 233-242: the loop is over (line 194), the document is written
WriteOutput ==
    /\ pc = "extract"
    /\ idx = Len(python_files)
    /\ write_calls' = write_calls + 1
    /\ IF write_ok
       THEN output' = <<result>> /\ exit_code' = 0
       ELSE output' = output /\ exit_code' = 1
    /\ pc' = "exited"
    /\ UNCHANGED <<configVars, renderVars, extractVars, isdir, disk_files, write_ok,
                   python_files, idx, signatures, result, discover_calls, extract_calls>>

Next == ValidateRoot \/ Discover \/ ExtractFile \/ WriteOutput

Spec == Init /\ [][Next]_vars

---------------------------------------------------------------------------
(* Vocabulary of the properties *)

FunctionKinds == {"FunctionDef", "AsyncFunctionDef"}

DeclarationKinds == FunctionKinds \cup {"ClassDef"}

\* The keys recorded under key of d, none when d has no such key.
Recorded(d, key) == IF key \in DOMAIN d THEN DOMAIN d[key] ELSE {}

\* No empty container and no empty docstring anywhere in a callable's entry.
CallableEntryInformative(info) ==
    /\ DOMAIN info # {}
    /\ "docstring" \in DOMAIN info => info.docstring # ""

ClassEntryInformative(entry) ==
    /\ DOMAIN entry # {}
    /\ "docstring" \in DOMAIN entry => entry.docstring # ""
    /\ "methods" \in DOMAIN entry =>
          /\ DOMAIN entry.methods # {}
          /\ \A meth \in DOMAIN entry.methods :
                CallableEntryInformative(entry.methods[meth])

NoVacuousEntries(m) ==
    /\ \A k \in DOMAIN m : DOMAIN m[k] # {}
    /\ \A f \in Recorded(m, "functions") : CallableEntryInformative(m.functions[f])
    /\ \A c \in Recorded(m, "classes") : ClassEntryInformative(m.classes[c])

\* ': <annotation>' when annotated
AnnotationSuffix(ann) == IF ann = NoneNode THEN "" ELSE ": " \o Unparse(ann)

\* The i-th positional parameter (1-based) rendered with the defaults bound
\* to the trailing parameters.
ExpectedParam(node, i) ==
    LET P == Len(node.args.args)
        D == Len(node.args.defaults)
        a == node.args.args[i]
    IN  a.arg
        \o (IF i > P - D THEN "=" \o Unparse(node.args.defaults[i - (P - D)]) ELSE "")
        \o AnnotationSuffix(a.annotation)

ExpectedEntries(node) ==
    [i \in 1 .. Len(node.args.args) |-> ExpectedParam(node, i)]
    \o (IF node.args.vararg = NoArg THEN <<>>
        ELSE <<"*" \o node.args.vararg.arg \o AnnotationSuffix(node.args.vararg.annotation)>>)
    \o (IF node.args.kwarg = NoArg THEN <<>>
        ELSE <<"**" \o node.args.kwarg.arg \o AnnotationSuffix(node.args.kwarg.annotation)>>)

RECURSIVE CommaList(_, _)
CommaList(parts, k) ==
    IF k = 0 THEN ""
    ELSE IF k = 1 THEN parts[1]
    ELSE CommaList(parts, k - 1) \o ", " \o parts[k]

NoDeclarations(body) == \A j \in 1 .. Len(body) : body[j].kind \notin DeclarationKinds

KeyOf(f) == RelPath(f.file_path, codebase_path)

LoopOver == (pc = "extract" /\ idx = Len(python_files)) \/ (pc = "exited" /\ write_calls = 1)

\* The report of handling the first k files of a list, one after the other.
RECURSIVE ReportOf(_, _)
ReportOf(files, k) ==
    IF k = 0 THEN EmptyDict
    ELSE LET sigs == extract_signatures_with_ast(files[k], ~OMIT_DOCSTRINGS)
             before == ReportOf(files, k - 1)
         IN  IF DOMAIN sigs # {} \/ ~REPORT_EMPTY_ITEMS
             THEN Put(before, KeyOf(files[k]), sigs) ELSE before

Restrict(d, keys) == [k \in DOMAIN d \cap keys |-> d[k]]

\* The last top-level ClassDef named c in body.
LastClass(body, c) ==
    body[CHOOSE i \in 1 .. Len(body) :
            /\ body[i].kind = "ClassDef" /\ body[i].name = c
            /\ \A j \in i + 1 .. Len(body) :
                  ~(body[j].kind = "ClassDef" /\ body[j].name = c)]

DirectNames(body, kinds) ==
    {body[i].name : i \in {j \in 1 .. Len(body) : body[j].kind \in kinds}}

\* Every key of a ModuleInfo below 'functions', 'classes' and 'methods'.
AllNames(m) ==
    Recorded(m, "functions") \cup Recorded(m, "classes")
    \cup UNION {Recorded(m.classes[c], "methods") : c \in Recorded(m, "classes")}

---------------------------------------------------------------------------
(* Properties *)

\* C1: with pruning enabled, the ModuleInfo returned for a parsed module holds
\* no empty container ('functions', 'classes', 'methods', a class entry, a
\* callable entry) and no empty 'docstring', whatever include_docstrings is.
C1_NoVacuousEntryAfterPruning ==
    (pc = "returned" /\ REPORT_EMPTY_ITEMS /\ file.status = "ok")
        => NoVacuousEntries(module_info)

\* C2: the pruning pass is idempotent: applied again to what the extraction
\* (with pruning) returned, it gives back the same ModuleInfo.
C2_PruningIdempotent ==
    pc = "pruned_again"
        => module_info = extract_signatures_with_ast(file, include_docstrings)

\* C3: with P positional parameters and D <= P defaults, default i is bound to
\* the parameter at index P - D + i: exactly the last D entries carry
\* '=<default>', the first P - D carry none.
C3_DefaultsBindToTrailingParameters ==
    (pc = "rendered" /\ Len(item.args.defaults) <= Len(item.args.args))
        => /\ Len(args) >= Len(item.args.args)
           /\ \A i \in 1 .. Len(item.args.args) : args[i] = ExpectedParam(item, i)

C3_Witness ==
    /\ pc = "rendered" /\ has_unparse
    /\ Len(item.args.args) = 3 /\ Len(item.args.defaults) = 2
    /\ args = <<"a", "b=2", "c=2: int">>

\* C4: a file that cannot be parsed or read adds no key to the report when
\* pruning is enabled and a key mapped to {} when it is disabled; every file
\* of the list is still handled, and the entries of the other files are those
\* of the list without the failing files.
C4_FailingFileIsSkipped ==
    LoopOver =>
        LET n == Len(python_files)
            good == SelectSeq(python_files, LAMBDA f : f.status = "ok")
            goodKeys == {KeyOf(good[i]) : i \in 1 .. Len(good)}
        IN  /\ \A i \in 1 .. n : extract_calls[i] = 1
            /\ \A i \in 1 .. n :
                  python_files[i].status # "ok" =>
                      IF REPORT_EMPTY_ITEMS
                      THEN KeyOf(python_files[i]) \notin DOMAIN result
                      ELSE /\ KeyOf(python_files[i]) \in DOMAIN result
                           /\ result[KeyOf(python_files[i])] = EmptyDict
            /\ Restrict(result, goodKeys) = ReportOf(good, Len(good))

C4_Witness ==
    /\ pc = "exited" /\ exit_code = 0 /\ REPORT_EMPTY_ITEMS
    /\ Len(python_files) = 3
    /\ python_files[1].status = "SyntaxError"
    /\ Cardinality(DOMAIN result) = 2

\* C5: main exits with code 1 exactly when the root is not a directory, or no
\* .py file is found under it, or writing the output fails; otherwise it
\* exits with code 0 with the report written, also when files failed to parse.
C5_ExitCode ==
    pc = "exited" =>
        /\ exit_code \in {0, 1}
        /\ exit_code = 1 <=>
              \/ ~isdir
              \/ \A i \in 1 .. Len(disk_files) : disk_files[i].ext # ".py"
              \/ (write_calls > 0 /\ ~write_ok)
        /\ exit_code = 0 => (write_calls = 1 /\ output = <<result>>)

C5_Witness ==
    /\ pc = "exited" /\ exit_code = 0
    /\ Len(python_files) = 2
    /\ \A i \in 1 .. 2 : python_files[i].status # "ok"
    /\ output = <<result>>

\* C6: the phases run in the order validate-root, discover, extract, write:
\* nothing is discovered, extracted or written under an invalid root, nothing
\* is extracted or written when no file is found, the write is attempted
\* only once every file has been extracted, each file exactly once, and
\* neither the extraction nor the write is ever repeated.
C6_PhaseOrder ==
    LET extracted == {i \in DOMAIN extract_calls : extract_calls[i] > 0}
    IN  /\ ~isdir => (discover_calls = 0 /\ extracted = {} /\ write_calls = 0)
        /\ (pc = "exited" /\ ~isdir) => exit_code = 1
        /\ Len(python_files) = 0 => (extracted = {} /\ write_calls = 0)
        /\ extracted # {} => discover_calls = 1
        /\ \A i \in DOMAIN extract_calls : extract_calls[i] <= 1
        /\ write_calls > 0 => \A i \in 1 .. Len(python_files) : extract_calls[i] = 1
        /\ write_calls <= 1 /\ discover_calls <= 1

C6_Witness ==
    /\ pc = "exited" /\ ~write_ok /\ write_calls = 1 /\ exit_code = 1
    /\ Len(python_files) = 2
    /\ \A i \in 1 .. 2 : extract_calls[i] = 1

\* C7: the rendered string is 'async ' iff the callable is async, then one
\* parenthesized comma-joined list of the positional parameters in order
\* (name, '=<default>' if defaulted, then ': <annotation>' if annotated),
\* '*name' if present and then '**name' if present (each with its
\* annotation), then ' -> <return annotation>' iff there is one.
C7_SignatureFormat ==
    pc = "rendered" =>
        func_info.signature =
            (IF item.kind = "AsyncFunctionDef" THEN "async " ELSE "")
            \o "(" \o CommaList(ExpectedEntries(item), Len(ExpectedEntries(item))) \o ")"
            \o (IF item.returns = NoneNode THEN "" ELSE " -> " \o Unparse(item.returns))

C7_Witness ==
    /\ pc = "rendered"
    /\ func_info.signature = "async (a, b=2: int, *args, **kwargs: str) -> int"

\* C8: signatures are never pruned: with pruning enabled every top-level
\* function and every direct method of a top-level class that the traversal
\* inserted is still there with the same signature, and every empty
\* docstring of a function, a class or a method is gone.
C8_SignaturesNeverPruned ==
    (pc = "returned" /\ REPORT_EMPTY_ITEMS /\ file.status = "ok") =>
        LET built == BuildModuleInfo(file.body, include_docstrings)
            Kept(before, after) ==
                /\ "signature" \in DOMAIN after
                /\ after.signature = before.signature
                /\ ("docstring" \in DOMAIN before /\ before.docstring = "")
                      => "docstring" \notin DOMAIN after
        IN  /\ \A f \in DOMAIN built.functions :
                  /\ f \in Recorded(module_info, "functions")
                  /\ Kept(built.functions[f], module_info.functions[f])
            /\ \A c \in DOMAIN built.classes :
                  /\ \A meth \in DOMAIN built.classes[c].methods :
                        /\ c \in Recorded(module_info, "classes")
                        /\ meth \in Recorded(module_info.classes[c], "methods")
                        /\ Kept(built.classes[c].methods[meth],
                                module_info.classes[c].methods[meth])
                  /\ (/\ c \in Recorded(module_info, "classes")
                      /\ "docstring" \in DOMAIN built.classes[c]
                      /\ built.classes[c].docstring = "")
                        => "docstring" \notin DOMAIN module_info.classes[c]

C8_Witness ==
    /\ pc = "returned" /\ REPORT_EMPTY_ITEMS /\ include_docstrings
    /\ file.body = <<Stmt("ClassDef", "B", NoArguments, NoneNode, <<>>,
                          <<Fn("FunctionDef", "m", <<>>, <<PassStmt>>)>>)>>
    /\ module_info = [classes |-> [B |-> [methods |-> [m |-> [signature |-> "(a=2)"]]]]]

\* C9: a module that parses and has no top-level function and no top-level
\* class yields {} with pruning enabled, and its file gets no key in the report.
C9_EmptyModuleHasNoEntry ==
    \A i \in 1 .. idx :
        (/\ REPORT_EMPTY_ITEMS
         /\ python_files[i].status = "ok"
         /\ NoDeclarations(python_files[i].body))
            => /\ i = idx => signatures = EmptyDict
               /\ KeyOf(python_files[i]) \notin DOMAIN result

C9_Witness ==
    /\ pc = "exited" /\ exit_code = 0 /\ REPORT_EMPTY_ITEMS
    /\ Len(python_files) = 2
    /\ python_files[1].status = "ok" /\ Len(python_files[1].body) = 2
    /\ NoDeclarations(python_files[1].body)
    /\ DOMAIN result = {KeyOf(python_files[2])}

\* C10: the names under 'functions' are exactly the function declarations
\* that are immediate children of the module, the names under a class's
\* 'methods' exactly the function declarations that are immediate children
\* of that top-level class, no declaration nested deeper appears anywhere,
\* and the other top-level statements leave no trace.
C10_TwoDepthsOnly ==
    (pc = "returned" /\ file.status = "ok") =>
        /\ Recorded(module_info, "functions") = DirectNames(file.body, FunctionKinds)
        /\ Recorded(module_info, "classes") \subseteq DirectNames(file.body, {"ClassDef"})
        /\ ~REPORT_EMPTY_ITEMS =>
              Recorded(module_info, "classes") = DirectNames(file.body, {"ClassDef"})
        /\ \A c \in Recorded(module_info, "classes") :
              Recorded(module_info.classes[c], "methods")
                  = DirectNames(LastClass(file.body, c).body, FunctionKinds)
        /\ AllNames(module_info) \cap NestedNames = {}

C10_Witness ==
    /\ pc = "returned" /\ include_docstrings /\ ~REPORT_EMPTY_ITEMS
    /\ file.body = <<Fn("FunctionDef", "g", <<"x">>, <<InnerClass>>),
                     Stmt("ClassDef", "A", NoArguments, NoneNode, <<"x">>,
                          <<Fn("FunctionDef", "m", <<"x">>, <<InnerDef>>),
                            Fn("AsyncFunctionDef", "n", <<>>, <<PassStmt>>)>>)>>
    /\ DOMAIN module_info.functions = {"g"}
    /\ DOMAIN module_info.classes.A.methods = {"m", "n"}

===========================================================================
